---- MODULE Spec2Model ----
(***************************************************************************)
(* OpenWAM controller subsystem: the Table controller (TTable.cpp) and the *)
(* host embedding entry point run_simulation_wrapper (wasm_wrapper.cpp).   *)
(***************************************************************************)
EXTENDS Integers, Sequences, FiniteSets, TLC

(***************************************************************************)
(* Bounds of the model.                                                    *)
(***************************************************************************)
MaxCalls == 2
\* calls of run_simulation_wrapper in one run
MaxSteps == 2
\* iterations of the simulation loop in one call
NumCtl == 2
\* controllers constructed, construction indices 0 .. NumCtl-1
Preamble == 1
\* positions of the configuration file that precede the first controller block

CtlIdx == 0 .. (NumCtl - 1)
SensorIds == {1}
Times == {0, 1}
Readings == {-50, 50, 150}

(***************************************************************************)
(* The environment: the configuration file is a preamble followed by       *)
(* controller blocks.  A block occupies len positions, is well formed or   *)
(* not, and (when well formed) describes a single-axis breakpoint table    *)
(* and the id of the sensor that feeds the axis.                           *)
(***************************************************************************)
Pt(a, b) == [x |-> a, y |-> b]
TableA == << Pt(0, 10), Pt(100, 20) >>
TableZ == << Pt(0, -10), Pt(100, 10) >>
TableM == << Pt(0, 10), Pt(50, 30), Pt(100, 20) >>
BlockA == [len |-> 2, ok |-> TRUE, table |-> TableA, ref |-> 1]
BlockZ == [len |-> 1, ok |-> TRUE, table |-> TableZ, ref |-> 1]
BlockM == [len |-> 1, ok |-> TRUE, table |-> TableM, ref |-> 1]
BlockBad == [len |-> 1, ok |-> FALSE, table |-> << >>, ref |-> 1]
Files == { << BlockA, BlockZ >>, << BlockBad, BlockM >> }

RECURSIVE LenUpTo(_, _)
LenUpTo(f, k) == IF k = 0 THEN 0 ELSE LenUpTo(f, k - 1) + f[k].len
Start(f, k) == Preamble + LenUpTo(f, k - 1)
FileLen(f) == Preamble + LenUpTo(f, Len(f))
Positions(f) == 0 .. FileLen(f)
IsStart(f, pos) == \E k \in 1 .. Len(f) : Start(f, k) = pos
BlockAt(f, pos) == f[CHOOSE k \in 1 .. Len(f) : Start(f, k) = pos]
NoPos == -1

VARIABLES ctl, file, filepos, parsedAt, sensorsGiven, range,
          medoutput, insoutput, call

tvars == << ctl, file, filepos, parsedAt, sensorsGiven, range,
            medoutput, insoutput, call >>

\* run_simulation_wrapper: the control point, the locals sim, engine and
\* response, the static result_str, and what this call has done so far (ran:
\* the operations that have returned; log: the same, in the order they
\* returned, every evaluation of the end predicate and the delete included).
VARIABLES pc, sim, engine, response, result_str, thrown, ran, steps, ncalls, log

wvars == << pc, sim, engine, response, result_str, thrown, ran, steps, ncalls,
            log >>

\* The averaged result record of a controller variant that keeps one: the
\* running sum and count, the number of timesteps so far, the last hook call
\* with what it returned, and (the environment's record) the values passed to
\* AccumulateAverage since the last ResetAverages.
VARIABLES avgSum, avgCount, tick, avgCall, since

avars == << avgSum, avgCount, tick, avgCall, since >>

vars == << tvars, wvars, avars >>

(***************************************************************************)
(* TTable.cpp                                                              *)
(***************************************************************************)
\* A bug the constructor could have: the id is the 0-based index itself.
TTableZeroBased(i) == [fID |-> i, fOutput |-> 0]

\* TTable::TTable(int i): fID = i + 1; fOutput = 0.
TTable(i) == [fID |-> i + 1, fOutput |-> 0]

\* A bug Output could have: the value returned depends on the time asked for.
OutputValueTime(c, Time) == c.fOutput + Time

\* TTable::Output(double Time): return fOutput.
OutputValue(c, Time) == c.fOutput

\* A bug LeeController could have: fgetpos on the freshly opened file without
\* the fsetpos, which reads back the start of the file.
LeeControllerCursorRewind(pos) == 0

\* TTable::LeeController: fsetpos(fich, &filepos) followed at once by
\* fgetpos(fich, &filepos): the position read back is the one that was set.
LeeControllerCursor(pos) == pos

\* The record of the last interface call: which operation on which
\* controller, how it ended, what it returned and what it was given.
Call(op, i, outcome, ret, Time, x, flag) ==
    [op |-> op, i |-> i, outcome |-> outcome, ret |-> ret, Time |-> Time,
     x |-> x, flag |-> flag]

Running == call.outcome # "crash"

\* Whether the sensor set S holds every sensor the block controller i was
\* parsed from refers to (the environment's view: the code keeps no reference).
Resolves(i, S) ==
    IsStart(file, parsedAt[i]) => BlockAt(file, parsedAt[i]).ref \in S

InitTable ==
    /\ ctl = [i \in CtlIdx |-> TTable(i)]
    /\ file \in Files
    /\ filepos \in { Start(file, k) : k \in 1 .. Len(file) }
    /\ parsedAt = [i \in CtlIdx |-> NoPos]
    /\ sensorsGiven = [i \in CtlIdx |-> {}]
    /\ range = [from |-> filepos, to |-> filepos]
    /\ medoutput = << >>
    /\ insoutput = << >>
    /\ call = Call("TTable", 0, "ok", 0, 0, 0, FALSE)

\* A bug Output could have: the reading is cached in fOutput.
OutputCaches(i) ==
    /\ Running
    /\ \E Time \in Times, x \in Readings :
          /\ call' = Call("Output", i, "ok", x, Time, x, FALSE)
          /\ ctl' = [ctl EXCEPT ![i].fOutput = x]
    /\ UNCHANGED << file, filepos, parsedAt, sensorsGiven, range,
                    medoutput, insoutput >>
    /\ UNCHANGED << wvars, avars >>

\* double TTable::Output(double Time), with the bound sensor reading x at Time.
Output(i) ==
    /\ Running
    /\ \E Time \in Times, x \in Readings :
          call' = Call("Output", i, "ok", OutputValue(ctl[i], Time), Time, x, FALSE)
    /\ UNCHANGED << ctl, file, filepos, parsedAt, sensorsGiven, range,
                    medoutput, insoutput >>
    /\ UNCHANGED << wvars, avars >>

\* void TTable::LeeController(const char *FileWAM, fpos_t &filepos), file opened.
LeeControllerOpened(i) ==
    /\ Running
    /\ filepos' = LeeControllerCursor(filepos)
    /\ parsedAt' = [parsedAt EXCEPT ![i] = filepos]
    /\ range' = [from |-> filepos, to |-> filepos']
    /\ call' = Call("LeeController", i, "ok", 0, 0, 0, TRUE)
    /\ UNCHANGED << ctl, file, sensorsGiven, medoutput, insoutput >>
    /\ UNCHANGED << wvars, avars >>

\* LeeController when fopen returns NULL: fsetpos, fgetpos and fclose are
\* applied to a null FILE*, which is undefined: the process dies, or the call
\* returns with an indeterminate cursor (the start and the end of the file
\* stand for the values it may hold).
LeeControllerNoFile(i) ==
    /\ Running
    /\ \/ /\ call' = Call("LeeController", i, "crash", 0, 0, 0, FALSE)
          /\ filepos' = filepos
       \/ /\ call' = Call("LeeController", i, "ok", 0, 0, 0, FALSE)
          /\ filepos' \in {0, FileLen(file)}
    /\ parsedAt' = parsedAt
    /\ range' = [from |-> filepos, to |-> filepos']
    /\ UNCHANGED << ctl, file, sensorsGiven, medoutput, insoutput >>
    /\ UNCHANGED << wvars, avars >>

LeeController(i) == LeeControllerOpened(i) \/ LeeControllerNoFile(i)

\* void TTable::AsignaObjetos(TSensor **Sensor, TController **Controller):
\* empty body.  S is the set of ids of the sensors in the array passed.
AsignaObjetos(i) ==
    /\ Running
    /\ \E S \in SUBSET SensorIds :
          /\ sensorsGiven' = [sensorsGiven EXCEPT ![i] = S]
          /\ call' = Call("AsignaObjetos", i, "ok", 0, 0, 0, Resolves(i, S))
    /\ UNCHANGED << ctl, file, filepos, parsedAt, range, medoutput,
                    insoutput >>
    /\ UNCHANGED << wvars, avars >>

\* A bug a hook could have: it writes the output to the averaged stream.
HookPrints(name, i) ==
    /\ Running
    /\ call' = Call(name, i, "ok", 0, 0, 0, FALSE)
    /\ medoutput' = IF Len(medoutput) < 2 THEN Append(medoutput, ctl[i].fOutput)
                    ELSE medoutput
    /\ UNCHANGED << ctl, file, filepos, parsedAt, sensorsGiven, range,
                    insoutput >>
    /\ UNCHANGED << wvars, avars >>

\* The result-lifecycle hooks: every body is empty.
Hook(name, i) ==
    /\ Running
    /\ call' = Call(name, i, "ok", 0, 0, 0, FALSE)
    /\ UNCHANGED << ctl, file, filepos, parsedAt, sensorsGiven, range,
                    medoutput, insoutput >>
    /\ UNCHANGED << wvars, avars >>

LeeResultadosMedControlador(i) == Hook("LeeResultadosMedControlador", i)
LeeResultadosInsControlador(i) == Hook("LeeResultadosInsControlador", i)
CabeceraResultadosMedControlador(i) == Hook("CabeceraResultadosMedControlador", i)
CabeceraResultadosInsControlador(i) == Hook("CabeceraResultadosInsControlador", i)
ImprimeResultadosMedControlador(i) == Hook("ImprimeResultadosMedControlador", i)
ImprimeResultadosInsControlador(i) == Hook("ImprimeResultadosInsControlador", i)
IniciaMedias(i) == Hook("IniciaMedias", i)
ResultadosMediosController(i) == Hook("ResultadosMediosController", i)
AcumulaResultadosMediosController(i) == Hook("AcumulaResultadosMediosController", i)
ResultadosInstantController(i) == Hook("ResultadosInstantController", i)

NextTable ==
    \E i \in CtlIdx :
       \/ Output(i)
       \/ LeeController(i)
       \/ AsignaObjetos(i)
       \/ LeeResultadosMedControlador(i)
       \/ LeeResultadosInsControlador(i)
       \/ CabeceraResultadosMedControlador(i)
       \/ CabeceraResultadosInsControlador(i)
       \/ ImprimeResultadosMedControlador(i)
       \/ ImprimeResultadosInsControlador(i)
       \/ IniciaMedias(i)
       \/ ResultadosMediosController(i)
       \/ AcumulaResultadosMediosController(i)
       \/ ResultadosInstantController(i)

(***************************************************************************)
(* wasm_wrapper.cpp: run_simulation_wrapper                                *)
(***************************************************************************)
ExKinds == {"std", "unknown"}
NoThrow == [kind |-> "none", at |-> "none"]

\* json response: an object is the set of its <<key, value>> pairs; the
\* values of "output" and "performance" are the sets of the keys set in them.
Has(r, k) == \E p \in r : p[1] = k
Get(r, k) == (CHOOSE p \in r : p[1] = k)[2]
\* response[k] = v
Put(r, k, v) == { p \in r : p[1] # k } \cup { << k, v >> }
\* response[k][sub] = ...
PutSub(r, k, sub) == Put(r, k, (IF Has(r, k) THEN Get(r, k) ELSE {}) \cup {sub})

\* response.dump(): the members of the object in key order (an empty
\* response dumps as null, here the empty sequence).
KeyOrder == << "message", "output", "performance", "status" >>
RECURSIVE DumpFrom(_, _)
DumpFrom(r, n) ==
    IF n > Len(KeyOrder) THEN << >>
    ELSE (IF Has(r, KeyOrder[n]) THEN << << KeyOrder[n], Get(r, KeyOrder[n]) >> >>
          ELSE << >>) \o DumpFrom(r, n + 1)
Dump(r) == DumpFrom(r, 1)

\* A bug the handlers could have: no catch (...) clause, so an exception that
\* is not a std::exception leaves the function.
HandlerNoCatchAll(kind) == IF kind = "std" THEN "catch_std" ELSE "propagated"

\* A bug the handlers could have: the exception is swallowed and control
\* carries on into the simulation loop.
HandlerSwallows(kind) == "DetermineTimeStepIndependent"

\* catch (const std::exception& e) / catch (...): the handler an exception
\* thrown inside the try block reaches.
Handler(kind) == IF kind = "std" THEN "catch_std" ELSE "catch_all"

InitWrap ==
    /\ pc = "idle"
    /\ sim = "null"
    /\ engine = FALSE
    /\ response = {}
    /\ result_str = << >>
    /\ thrown = NoThrow
    /\ ran = {}
    /\ log = << >>
    /\ steps = 0
    /\ ncalls = 0

\* A statement of the try block at control point `at` throws.
Throw(at) ==
    /\ \E kind \in ExKinds :
          /\ pc' = Handler(kind)
          /\ thrown' = [kind |-> kind, at |-> at]
    /\ UNCHANGED << sim, engine, response, result_str, ran, steps, ncalls, log >>

\* A call of a TOpenWAM method inside the try block: it returns and control
\* moves to `to`, or it throws.
SimCall(at, to) ==
    /\ pc = at
    /\ \/ /\ pc' = to
          /\ ran' = ran \cup {at}
          /\ log' = Append(log, at)
          /\ UNCHANGED << sim, engine, response, result_str, thrown, steps, ncalls >>
       \/ Throw(at)
    /\ UNCHANGED << tvars, avars >>

\* const char* run_simulation_wrapper(const char* params_json_str): entry.
\* json response; TOpenWAM* sim = nullptr;
Enter ==
    /\ pc \in {"idle", "returned"}
    /\ ncalls < MaxCalls
    /\ pc' = "parse"
    /\ sim' = "null"
    /\ engine' = FALSE
    /\ response' = {}
    /\ thrown' = NoThrow
    /\ ran' = {}
    /\ log' = << >>
    /\ steps' = 0
    /\ ncalls' = ncalls + 1
    /\ UNCHANGED result_str
    /\ UNCHANGED << tvars, avars >>

\* auto params = json::parse(params_json_str): text that is not JSON makes
\* parse throw a parse_error, which is a std::exception.
Parse ==
    /\ pc = "parse"
    /\ \/ /\ pc' = "new"
          /\ ran' = ran \cup {"parse"}
          /\ log' = Append(log, "parse")
          /\ thrown' = thrown
       \/ /\ pc' = Handler("std")
          /\ thrown' = [kind |-> "std", at |-> "parse"]
          /\ ran' = ran
          /\ log' = log
    /\ UNCHANGED << sim, engine, response, result_str, steps, ncalls >>
    /\ UNCHANGED << tvars, avars >>

\* sim = new TOpenWAM(): sim is assigned only when the constructor returns.
NewSim ==
    /\ pc = "new"
    /\ \/ /\ pc' = "params"
          /\ sim' = "alive"
          /\ ran' = ran \cup {"new"}
          /\ log' = Append(log, "new")
          /\ UNCHANGED << engine, response, result_str, thrown, steps, ncalls >>
       \/ Throw("new")
    /\ UNCHANGED << tvars, avars >>

\* TBloqueMotor* engine = sim->getEngine(); if (engine) { set the parameters }
SetParams ==
    /\ pc = "params"
    /\ \/ /\ pc' = "InitializeParameters"
          /\ engine' \in BOOLEAN
          /\ ran' = ran \cup {"params"}
          /\ log' = Append(log, "params")
          /\ UNCHANGED << sim, response, result_str, thrown, steps, ncalls >>
       \/ Throw("params")
    /\ UNCHANGED << tvars, avars >>

InitializeParameters == SimCall("InitializeParameters", "ConnectFlowElements")
ConnectFlowElements == SimCall("ConnectFlowElements", "InitializeOutput")
InitializeOutput == SimCall("InitializeOutput", "ProgressBegin")
\* A bug the loop could have: a while loop, which tests the end predicate
\* before the first step.
ProgressBeginWhile == SimCall("ProgressBegin", "CalculationEnd")

ProgressBegin == SimCall("ProgressBegin", "DetermineTimeStepIndependent")

\* do { ... } while (!sim->CalculationEnd());
DetermineTimeStepIndependent == SimCall("DetermineTimeStepIndependent", "NewEngineCycle")
\* A bug the loop body could have: the flow advance is left out.
NewEngineCycleSkipsFlow == SimCall("NewEngineCycle", "ManageOutput")

NewEngineCycle == SimCall("NewEngineCycle", "CalculateFlowIndependent")
CalculateFlowIndependent == SimCall("CalculateFlowIndependent", "ManageOutput")
\* A bug the loop could have: it is left after the first step without asking
\* the end predicate.
ManageOutputExits == SimCall("ManageOutput", "ProgressEnd")

ManageOutput == SimCall("ManageOutput", "CalculationEnd")

\* sim->CalculationEnd(): the end predicate, evaluated after each step.  It is
\* external; the model makes it hold at the latest after MaxSteps steps.
CalculationEnd ==
    /\ pc = "CalculationEnd"
    /\ \/ /\ steps + 1 < MaxSteps
          /\ pc' = "DetermineTimeStepIndependent"
          /\ steps' = steps + 1
          /\ log' = Append(log, "CalculationEnd=false")
          /\ UNCHANGED << sim, engine, response, result_str, thrown, ran, ncalls >>
       \/ /\ pc' = "ProgressEnd"
          /\ steps' = steps + 1
          /\ ran' = ran \cup {"CalculationEnd"}
          /\ log' = Append(log, "CalculationEnd")
          /\ UNCHANGED << sim, engine, response, result_str, thrown, ncalls >>
       \/ Throw("CalculationEnd")
    /\ UNCHANGED << tvars, avars >>

\* A bug the finalisation could have: GeneralOutput is left out.
ProgressEndSkipsOutput == SimCall("ProgressEnd", "getOutputResults")

ProgressEnd == SimCall("ProgressEnd", "GeneralOutput")
GeneralOutput == SimCall("GeneralOutput", "getOutputResults")

\* TOutputResults* results = sim->getOutputResults(); if (results) ... else
\* { status = error; message = "Simulation ran but produced no output." }
GetOutputResults ==
    /\ pc = "getOutputResults"
    /\ \/ /\ pc' = "success"
          /\ ran' = ran \cup {"getOutputResults"}
          /\ log' = Append(log, "getOutputResults")
          /\ UNCHANGED << sim, engine, response, result_str, thrown, steps, ncalls >>
       \/ /\ pc' = "cleanup"
          /\ response' = Put(Put(response, "status", "error"), "message", "no output")
          /\ UNCHANGED << sim, engine, result_str, thrown, ran, steps, ncalls, log >>
       \/ Throw("getOutputResults")
    /\ UNCHANGED << tvars, avars >>

\* response["status"] = "success"; response["message"] = "Simulation
\* completed."; response["output"]["crank_angle"] = results->crank_angle;
SetSuccess ==
    /\ pc = "success"
    /\ \/ /\ pc' = "pressure"
          /\ response' = PutSub(Put(Put(response, "status", "success"),
                                    "message", "completed"), "output", "crank_angle")
          /\ UNCHANGED << sim, engine, result_str, thrown, ran, steps, ncalls, log >>
       \/ Throw("success")
    /\ UNCHANGED << tvars, avars >>

\* if (!results->pressure.empty()) response["output"]["pressure"] = ...
SetPressure ==
    /\ pc = "pressure"
    /\ \/ /\ pc' = "temperature"
          /\ response' \in {response, PutSub(response, "output", "pressure")}
          /\ UNCHANGED << sim, engine, result_str, thrown, ran, steps, ncalls, log >>
       \/ Throw("pressure")
    /\ UNCHANGED << tvars, avars >>

\* if (!results->temperature.empty()) response["output"]["temperature"] = ...
SetTemperature ==
    /\ pc = "temperature"
    /\ \/ /\ pc' = "performance"
          /\ response' \in {response, PutSub(response, "output", "temperature")}
          /\ UNCHANGED << sim, engine, result_str, thrown, ran, steps, ncalls, log >>
       \/ Throw("temperature")
    /\ UNCHANGED << tvars, avars >>

\* response["performance"]["torque" | "power_hp" | "imep"]: from the engine's
\* getters when there is an engine, else 0.  The getters may throw.
SetPerformance ==
    /\ pc = "performance"
    /\ \/ /\ pc' = "cleanup"
          /\ response' = PutSub(PutSub(PutSub(response, "performance", "torque"),
                                       "performance", "power_hp"), "performance", "imep")
          /\ UNCHANGED << sim, engine, result_str, thrown, ran, steps, ncalls, log >>
       \/ /\ engine
          /\ Throw("performance")
    /\ UNCHANGED << tvars, avars >>

\* catch (const std::exception& e) { status = error; message = "C++ exception: " + e.what() }
CatchStd ==
    /\ pc = "catch_std"
    /\ pc' = "cleanup"
    /\ response' = Put(Put(response, "status", "error"), "message", "C++ exception")
    /\ UNCHANGED << sim, engine, result_str, thrown, ran, steps, ncalls, log >>
    /\ UNCHANGED << tvars, avars >>

\* catch (...) { status = error; message = "An unknown C++ exception occurred during simulation." }
CatchAll ==
    /\ pc = "catch_all"
    /\ pc' = "cleanup"
    /\ response' = Put(Put(response, "status", "error"), "message", "unknown exception")
    /\ UNCHANGED << sim, engine, result_str, thrown, ran, steps, ncalls, log >>
    /\ UNCHANGED << tvars, avars >>

\* A bug the cleanup could have: sim is never deleted.
CleanupLeaks ==
    /\ pc = "cleanup"
    /\ pc' = "dump"
    /\ UNCHANGED << sim, engine, response, result_str, thrown, ran, steps, ncalls, log >>
    /\ UNCHANGED << tvars, avars >>

\* if (sim) { delete sim; }
Cleanup ==
    /\ pc = "cleanup"
    /\ pc' = "dump"
    /\ sim' = IF sim = "alive" THEN "deleted" ELSE sim
    /\ log' = IF sim = "alive" THEN Append(log, "delete") ELSE log
    /\ UNCHANGED << engine, response, result_str, thrown, ran, steps, ncalls >>
    /\ UNCHANGED << tvars, avars >>

\* result_str = response.dump(); return result_str.c_str();
Return ==
    /\ pc = "dump"
    /\ pc' = "returned"
    /\ result_str' = Dump(response)
    /\ UNCHANGED << sim, engine, response, thrown, ran, steps, ncalls, log >>
    /\ UNCHANGED << tvars, avars >>

NextWrap ==
    \/ Enter
    \/ Parse
    \/ NewSim
    \/ SetParams
    \/ InitializeParameters
    \/ ConnectFlowElements
    \/ InitializeOutput
    \/ ProgressBegin
    \/ DetermineTimeStepIndependent
    \/ NewEngineCycle
    \/ CalculateFlowIndependent
    \/ ManageOutput
    \/ CalculationEnd
    \/ ProgressEnd
    \/ GeneralOutput
    \/ GetOutputResults
    \/ SetSuccess
    \/ SetPressure
    \/ SetTemperature
    \/ SetPerformance
    \/ CatchStd
    \/ CatchAll
    \/ Cleanup
    \/ Return

(***************************************************************************)
(* The averaged result record (the Result Aggregator contract for a        *)
(* simple-mean variant; the Table variant keeps none).                     *)
(***************************************************************************)
MaxTicks == 10
Values == {1, 2}
\* The mean is kept as the fraction num/den.
Sentinel == [num |-> 0, den |-> 1]
AvgCall(op, ret) == [op |-> op, ret |-> ret]

InitAvg ==
    /\ avgSum = 0
    /\ avgCount = 0
    /\ tick = 0
    /\ since = << >>
    /\ avgCall = AvgCall("none", Sentinel)

\* A bug ResetAverages could have: the count is reset and the sum is not.
ResetAveragesKeepsSum ==
    /\ avgCount' = 0
    /\ since' = << >>
    /\ avgCall' = AvgCall("ResetAverages", Sentinel)
    /\ UNCHANGED << avgSum, tick >>
    /\ UNCHANGED << tvars, wvars >>

\* ResetAverages() at interval start.
ResetAverages ==
    /\ avgSum' = 0
    /\ avgCount' = 0
    /\ since' = << >>
    /\ avgCall' = AvgCall("ResetAverages", Sentinel)
    /\ UNCHANGED tick
    /\ UNCHANGED << tvars, wvars >>

\* AccumulateAverage(currentOutput), once every timestep.
AccumulateAverage ==
    /\ tick < MaxTicks
    /\ \E v \in Values :
          /\ avgSum' = avgSum + v
          /\ since' = Append(since, v)
    /\ avgCount' = avgCount + 1
    /\ tick' = tick + 1
    /\ avgCall' = AvgCall("AccumulateAverage", Sentinel)
    /\ UNCHANGED << tvars, wvars >>

\* FinalizeAverage() at interval end: the simple mean, or the sentinel when
\* nothing was accumulated.
FinalizeAverage ==
    /\ avgCall' = AvgCall("FinalizeAverage",
                          IF avgCount = 0 THEN Sentinel
                          ELSE [num |-> avgSum, den |-> avgCount])
    /\ UNCHANGED << avgSum, avgCount, tick, since >>
    /\ UNCHANGED << tvars, wvars >>

NextAvg == ResetAverages \/ AccumulateAverage \/ FinalizeAverage

Init == InitTable /\ InitWrap /\ InitAvg

SpecTable == Init /\ [][NextTable]_vars

SpecWrap == Init /\ [][NextWrap]_vars

SpecAvg == Init /\ [][NextAvg]_vars

\* run_simulation_wrapper is straight-line sequential code: whenever a next
\* statement exists it is eventually executed.
SpecWrapFair == SpecWrap /\ WF_vars(NextWrap)

(***************************************************************************)
(* The designed contract of the Table controller (what the documentation   *)
(* asks of it), used to state the claims.                                  *)
(***************************************************************************)
StrictlyIncreasing(t) == \A k \in 1 .. (Len(t) - 1) : t[k].x < t[k + 1].x
InDomain(t, x) == Len(t) >= 1 /\ t[1].x <= x /\ x <= t[Len(t)].x
Lo(a, b) == IF a <= b THEN a ELSE b
Hi(a, b) == IF a <= b THEN b ELSE a
\* v is the piecewise-linear interpolation of t at x: on the segment that
\* brackets x, (v - y0) * (x1 - x0) = (y1 - y0) * (x - x0).
IsInterpolation(t, x, v) ==
    \E k \in 1 .. (Len(t) - 1) :
       /\ t[k].x <= x /\ x <= t[k + 1].x
       /\ (v - t[k].y) * (t[k + 1].x - t[k].x) = (t[k + 1].y - t[k].y) * (x - t[k].x)
       /\ Lo(t[k].y, t[k + 1].y) <= v /\ v <= Hi(t[k].y, t[k + 1].y)
EdgeValue(t, x) == IF x < t[1].x THEN t[1].y ELSE t[Len(t)].y

\* Controller i was parsed at the start of a well-formed block.
HasTable(i) == IsStart(file, parsedAt[i]) /\ BlockAt(file, parsedAt[i]).ok
TableOf(i) == BlockAt(file, parsedAt[i]).table
\* Controller i was given a valid table and the sensor its axis refers to.
Configured(i) ==
    /\ HasTable(i)
    /\ StrictlyIncreasing(TableOf(i))
    /\ BlockAt(file, parsedAt[i]).ref \in sensorsGiven[i]
\* No table or no sensors.
Degraded(i) == ~HasTable(i) \/ sensorsGiven[i] = {}
\* What the interface of a controller in state c yields to its caller: the
\* value of Output at every time (every other operation returns nothing).
Observe(c) == [t \in Times |-> OutputValue(c, t)]

(***************************************************************************)
(* Claims                                                                  *)
(***************************************************************************)

\* C1: a Table controller holds no table and no sensors, and after any
\* sequence of Output, LeeController, AsignaObjetos and hook calls every
\* Output(t) returns, for every time t, the lastOutput it had after
\* construction.
C1_DegradedOutputIdempotent ==
    /\ \A i \in CtlIdx, t \in Times : OutputValue(ctl[i], t) = TTable(i).fOutput
    /\ call.op = "Output" => call.ret = TTable(call.i).fOutput

\* C1 witness: Output was asked at a time other than 0 of a controller on
\* which LeeController and AsignaObjetos had been called.
C1_Witness ==
    /\ call.op = "Output" /\ call.Time = 1
    /\ parsedAt[call.i] # NoPos /\ sensorsGiven[call.i] # {}

\* C2: for a controller given a strictly increasing single-axis table and
\* its sensor, with the reading inside the table's domain, Output returns the
\* piecewise-linear interpolation between the two bracketing breakpoints (so
\* a value between the two bracketing table values; 15 for {(0,10),(100,20)}
\* at 50).
C2_OutputInterpolates ==
    (call.op = "Output" /\ Configured(call.i) /\ InDomain(TableOf(call.i), call.x))
        => IsInterpolation(TableOf(call.i), call.x, call.ret)

\* C3: for a controller given a strictly increasing table and its sensor,
\* with the reading outside the table's domain, Output returns the value of
\* the nearest edge breakpoint (20 for {(0,10),(100,20)} at 150).
C3_OutputClamps ==
    (call.op = "Output" /\ Configured(call.i) /\ ~InDomain(TableOf(call.i), call.x))
        => call.ret = EdgeValue(TableOf(call.i), call.x)

\* C4: a degraded controller whose Output is 0 and a configured controller
\* whose correctly interpolated Output is 0 differ in something their
\* interface yields.
C4_DegradedObservable ==
    \A i \in CtlIdx, j \in CtlIdx, x \in Readings :
       ( /\ Degraded(i) /\ \A t \in Times : OutputValue(ctl[i], t) = 0
         /\ Configured(j) /\ IsInterpolation(TableOf(j), x, 0) )
           => Observe(ctl[i]) # Observe(ctl[j])

\* C5: every LeeController call on a stream that opens starts at the cursor
\* the previous call left (the consumed ranges are contiguous), never moves
\* the cursor backwards, and consumes the range that ends at the new cursor
\* (so the ranges do not overlap).
C5_CursorMonotoneContiguous ==
    [][ (call'.op = "LeeController" /\ call'.outcome = "ok" /\ call'.flag)
          => /\ range'.from = range.to
             /\ range'.from <= range'.to
             /\ range'.to = filepos'
             /\ filepos <= filepos' ]_vars

\* C5 witness: two controllers have parsed one after another, the last call
\* on an opened stream.
C5_Witness ==
    /\ call.op = "LeeController" /\ call.outcome = "ok" /\ call.flag
    /\ \E i \in CtlIdx, j \in CtlIdx :
          i # j /\ parsedAt[i] # NoPos /\ parsedAt[j] # NoPos

\* C6: after a successful LeeController on a well-formed block that starts
\* at the cursor, the cursor is the first position after that block.
C6_CursorPastBlock ==
    ( /\ call.op = "LeeController" /\ call.outcome = "ok" /\ call.flag
      /\ IsStart(file, range.from) /\ BlockAt(file, range.from).ok )
        => filepos = range.from + BlockAt(file, range.from).len

\* C7: LeeController on a malformed block, or on a stream that cannot be
\* opened, fails with ConfigFormatError and leaves the cursor at the failure
\* point, not past the end of its own block.
C7_MalformedFails ==
    ( /\ call.op = "LeeController"
      /\ \/ ~call.flag
         \/ IsStart(file, range.from) /\ ~BlockAt(file, range.from).ok )
        => /\ call.outcome = "ConfigFormatError"
           /\ range.from <= filepos
           /\ IsStart(file, range.from)
                 => filepos <= range.from + BlockAt(file, range.from).len

\* C8: AsignaObjetos on a controller whose block refers to a sensor that is
\* not among those passed fails with UnresolvedReferenceError and leaves the
\* controller as it was.
C8_UnresolvedFails ==
    (call.op = "AsignaObjetos" /\ ~call.flag)
        => /\ call.outcome = "UnresolvedReferenceError"
           /\ ctl[call.i] = TTable(call.i)

\* The response the caller receives, read back from the returned string.
Returned(k) == \E n \in 1 .. Len(result_str) : result_str[n][1] = k
Field(k) == result_str[CHOOSE n \in 1 .. Len(result_str) : result_str[n][1] = k][2]

C10_StatusAndMessage ==
    pc = "returned"
        => /\ Returned("status") /\ Field("status") \in {"success", "error"}
           /\ Returned("message")

\* C10, second part: status is success only if setup completed, the loop
\* ended through the end predicate, ProgressEnd and GeneralOutput ran and the
\* results object is non-null.
C10_SuccessOnlyAfterFullRun ==
    (pc = "returned" /\ Returned("status") /\ Field("status") = "success")
        => { "ProgressBegin", "CalculationEnd", "ProgressEnd", "GeneralOutput",
             "getOutputResults" } \subseteq ran

\* C10, third part: output and performance are present only in a success
\* response.
C10_OutputOnlyOnSuccess ==
    (pc = "returned" /\ (Returned("output") \/ Returned("performance")))
        => Returned("status") /\ Field("status") = "success"

\* C10: the shape of every response returned by run_simulation_wrapper.
C10_ResponseShape ==
    C10_StatusAndMessage /\ C10_SuccessOnlyAfterFullRun /\ C10_OutputOnlyOnSuccess

(***************************************************************************)
(* The simulation loop and the life of the simulation object.              *)
(***************************************************************************)
StepOps == << "DetermineTimeStepIndependent", "NewEngineCycle",
              "CalculateFlowIndependent", "ManageOutput" >>
StepOpSet == { StepOps[n] : n \in 1 .. Len(StepOps) }
EndEvals == { "CalculationEnd", "CalculationEnd=false" }
SetupPcs == { "parse", "new", "params", "InitializeParameters",
              "ConnectFlowElements", "InitializeOutput", "ProgressBegin" }
StepPcs == StepOpSet \cup { "CalculationEnd" }
EndedPcs == { "ProgressEnd", "GeneralOutput", "getOutputResults", "success",
              "pressure", "temperature", "performance" }
HandlerPcs == { "catch_std", "catch_all" }
Phase(p) ==
    IF p \in SetupPcs THEN "Initializing"
    ELSE IF p \in StepPcs THEN "Stepping"
    ELSE IF p \in EndedPcs THEN "Ended"
    ELSE IF p \in HandlerPcs THEN "Failed"
    ELSE IF p \in {"cleanup", "dump"} THEN "Closing"
    ELSE "Idle"
Count(op) == Cardinality({ k \in 1 .. Len(log) : log[k] = op })

\* C11: in the loop the four step actions run in the order determine step
\* size, advance engine/cycle state, advance flow state, output management,
\* each once per tick, and a new tick starts only after the output
\* management of the tick before (and the end predicate saying go on).
C11_StepOrder ==
    \A k \in 1 .. Len(log) :
       /\ log[k] = "DetermineTimeStepIndependent"
             => k > 1 /\ log[k - 1] \in {"ProgressBegin", "CalculationEnd=false"}
       /\ log[k] = "NewEngineCycle"
             => k > 1 /\ log[k - 1] = "DetermineTimeStepIndependent"
       /\ log[k] = "CalculateFlowIndependent"
             => k > 1 /\ log[k - 1] = "NewEngineCycle"
       /\ log[k] = "ManageOutput"
             => k > 1 /\ log[k - 1] = "CalculateFlowIndependent"
       /\ log[k] = "CalculationEnd=false"
             => k > 1 /\ log[k - 1] = "ManageOutput"

\* C11 witness: the four actions of a second tick have run.
C11_Witness ==
    pc = "CalculationEnd" /\ steps = 1 /\ Count("ManageOutput") = 2

\* Phases are entered only in the order Initializing, Stepping, Ended.
PhaseOrder ==
    /\ Phase(pc') = "Initializing" => Phase(pc) \in {"Idle", "Initializing"}
    /\ Phase(pc') = "Stepping" => Phase(pc) \in {"Initializing", "Stepping"}
    /\ Phase(pc') = "Ended" => Phase(pc) \in {"Stepping", "Ended"}
LeavesStepping == Phase(pc) = "Stepping" /\ Phase(pc') # "Stepping"
ByEndPredicate == pc = "CalculationEnd" /\ pc' = "ProgressEnd"
ByException == pc' \in HandlerPcs /\ thrown'.kind # "none" /\ thrown'.at = pc

\* C12 as claimed: Stepping is left only because the end predicate,
\* evaluated after a completed step, holds, and the phases are visited only
\* in the order Initializing, Stepping, Ended.
C12_OnlyEndPredicateLeavesStepping ==
    [][ PhaseOrder /\ (LeavesStepping => ByEndPredicate) ]_vars

\* C12 as amended: Stepping is left only because the end predicate holds or
\* because a step (or the end predicate) throws, which takes control to a
\* catch handler; the phases are visited only in the order Initializing,
\* Stepping, Ended.
C12_SteppingLeftByPredicateOrException ==
    [][ PhaseOrder /\ (LeavesStepping => (ByEndPredicate \/ ByException)) ]_vars

\* C12 witness: the loop was left by an exception in the second tick.
C12_Witness ==
    pc = "returned" /\ thrown.at = "NewEngineCycle" /\ steps = 1

\* C13: when a setup operation fails, no simulation step runs in that call
\* and the caller gets an error response with a message.
C13_SetupFailureNoStep ==
    thrown.at \in SetupPcs
        => /\ \A k \in 1 .. Len(log) : log[k] \notin StepOpSet
           /\ pc \notin StepPcs
           /\ pc = "returned"
                 => /\ Returned("status") /\ Field("status") = "error"
                    /\ Returned("message")

\* C13 witness: a call has returned after ConnectFlowElements threw.
C13_Witness ==
    pc = "returned" /\ thrown.at = "ConnectFlowElements"

\* C18: a call in which nothing throws and the end predicate comes to hold
\* leaves the loop, runs ProgressEnd and GeneralOutput once each, in that
\* order and right after the last step, and returns; every call returns.
C18_LoopEndsAndReturns ==
    /\ [] ( (pc = "returned" /\ thrown.kind = "none")
              => /\ Count("ProgressEnd") = 1 /\ Count("GeneralOutput") = 1
                 /\ \E k \in 2 .. (Len(log) - 2) :
                       /\ log[k - 1] = "ManageOutput"
                       /\ log[k] = "CalculationEnd"
                       /\ log[k + 1] = "ProgressEnd"
                       /\ log[k + 2] = "GeneralOutput"
                       /\ \A m \in (k + 1) .. Len(log) : log[m] \notin StepOpSet )
    /\ [] ( pc = "parse" => <> (pc = "returned") )

\* C18 witness: a call returned without an exception after two steps.
C18_Witness ==
    pc = "returned" /\ thrown.kind = "none" /\ steps > 1

\* C19: the end predicate is evaluated only right after the four actions of
\* a complete step, so not before the first step and not inside a step, and
\* its evaluation is what follows every completed step (an evaluation that
\* throws ends the call instead of giving an answer).
C19_DoWhile ==
    /\ \A k \in 1 .. Len(log) :
          log[k] \in EndEvals
             => /\ k > Len(StepOps)
                /\ \A n \in 1 .. Len(StepOps) : log[k - Len(StepOps) - 1 + n] = StepOps[n]
    /\ \A k \in 1 .. Len(log) :
          log[k] = "ManageOutput"
             => \/ k < Len(log) /\ log[k + 1] \in EndEvals
                \/ k = Len(log) /\ pc = "CalculationEnd"
                \/ /\ thrown.at = "CalculationEnd"
                   /\ k = Len(log) \/ log[k + 1] = "delete"

\* C19 witness: the end predicate held at its first evaluation, after one
\* complete step.
C19_Witness ==
    pc = "ProgressEnd" /\ steps = 1 /\ Count("ManageOutput") = 1

\* C20: a simulation object is deleted only after it was created, at most
\* once; when the call returns it has been deleted exactly once if it was
\* created and not at all otherwise; none is alive between calls.
C20_SimDestroyedOnce ==
    /\ Count("delete") <= Count("new") /\ Count("new") <= 1
    /\ sim = "alive" <=> (Count("new") = 1 /\ Count("delete") = 0)
    /\ pc \in {"idle", "returned"} => sim # "alive"
    /\ pc = "returned" => Count("delete") = Count("new")

\* C20 witness: a second call has returned, after a loop step threw, with
\* its simulation object deleted.
C20_Witness ==
    /\ pc = "returned" /\ ncalls = 2 /\ thrown.at = "ManageOutput"
    /\ sim = "deleted" /\ Count("delete") = 1

(***************************************************************************)
(* The Table controller's identity, Output and hooks; averaging.           *)
(***************************************************************************)
HookNames == { "LeeResultadosMedControlador", "LeeResultadosInsControlador",
               "CabeceraResultadosMedControlador", "CabeceraResultadosInsControlador",
               "ImprimeResultadosMedControlador", "ImprimeResultadosInsControlador",
               "IniciaMedias", "ResultadosMediosController",
               "AcumulaResultadosMediosController", "ResultadosInstantController" }
RECURSIVE SumOf(_)
SumOf(q) == IF q = << >> THEN 0 ELSE q[1] + SumOf(Tail(q))

\* C14: the controller constructed with index i has id i + 1, and keeps it
\* through every sequence of Output, LeeController, AsignaObjetos and hook
\* calls.
C14_IdIsIndexPlusOne ==
    \A i \in CtlIdx : ctl[i].fID = i + 1 /\ ctl[i].fID >= 1

\* C14 witness: a hook was called on the second controller after it had been
\* through LeeController and AsignaObjetos.
C14_Witness ==
    /\ call.op \in HookNames /\ call.i = 1
    /\ parsedAt[1] # NoPos /\ sensorsGiven[1] # {}

C16_OutputTotalAndPure ==
    /\ [] (Running => \A i \in CtlIdx : ENABLED Output(i))
    /\ [][ call'.op = "Output"
             => /\ call'.outcome = "ok"
                /\ UNCHANGED << ctl, filepos, sensorsGiven, medoutput, insoutput >> ]_vars

\* C16 witness: Output was called with the largest reading on a controller
\* that had been through LeeController.
C16_Witness ==
    call.op = "Output" /\ call.x = 150 /\ parsedAt[call.i] # NoPos

\* C17: a hook call leaves id, lastOutput, the cursor and both report
\* streams as they were, and with them what Output returns.
C17_HooksAreNoOps ==
    [][ call'.op \in HookNames
          => /\ UNCHANGED << ctl, filepos, medoutput, insoutput >>
             /\ \A i \in CtlIdx : Observe(ctl'[i]) = Observe(ctl[i]) ]_vars

\* C17 witness: the accumulate hook was called on a controller that had been
\* through LeeController and AsignaObjetos.
C17_Witness ==
    /\ call.op = "AcumulaResultadosMediosController"
    /\ parsedAt[call.i] # NoPos /\ sensorsGiven[call.i] # {}

====
